---- MODULE Spec2Model ----
(***************************************************************************)
(* A model of src/Seguros/Frontend/js/main.js: the handlers the            *)
(* DOMContentLoaded callback installs (mobile menu, contact form, anchor   *)
(* clicks and the scroll highlighter) and the DOM state they read and      *)
(* write.  Every action is one run of a handler, or of the continuation    *)
(* of the async submit handler after one of its awaits.                    *)
(*                                                                         *)
(* Text values are sequences of one-character strings, so that trim() and  *)
(* the email pattern are computed character by character.  The accents of  *)
(* the message literals are dropped (ASCII only).                          *)
(***************************************************************************)
EXTENDS Integers, Sequences, FiniteSets, Bags

(***************************************************************************)
(* Bounds of the model.                                                    *)
(***************************************************************************)
\* submit handlers that may be suspended at an await at the same time
MaxPending == 2

\* timers the window can hold pending at the same time
MaxTimers == 2

\* milliseconds that pass in one step of the clock
TickMs == 50

\* sections of the page with class 'fade-in-section'
MaxFade == 5

\* characters of the longest value validateField is tried on
MaxLen == 5

(***************************************************************************)
(* Strings.                                                                *)
(***************************************************************************)
Whitespace == {" "}

\* String.prototype.trim: drop leading and trailing whitespace
RECURSIVE TrimLeft(_)
TrimLeft(s) ==
    IF s # <<>> /\ Head(s) \in Whitespace THEN TrimLeft(Tail(s)) ELSE s

RECURSIVE TrimRight(_)
TrimRight(s) ==
    IF s # <<>> /\ s[Len(s)] \in Whitespace
    THEN TrimRight(SubSeq(s, 1, Len(s) - 1))
    ELSE s

\* mutant of trim: the value is taken as typed
trimNothing(s) == s

trim(s) == TrimRight(TrimLeft(s))

\* the character class [^\s@]
NotSpaceNotAt(c) == c \notin Whitespace /\ c # "@"

\* mutant of EmailPattern: no '.' is asked for after the '@'
EmailPatternNoDot(s) ==
    \E i \in 1..Len(s) :
        /\ 1 < i /\ i < Len(s)
        /\ s[i] = "@"
        /\ \A k \in 1..Len(s) : k # i => NotSpaceNotAt(s[k])

\* /^[^\s@]+@[^\s@]+\.[^\s@]+$/.test(s): an '@' at i and a '.' at j, with
\* non-empty runs of [^\s@] before i, between i and j, and after j
EmailPattern(s) ==
    \E i \in 1..Len(s) : \E j \in 1..Len(s) :
        /\ 1 < i /\ i + 1 < j /\ j < Len(s)
        /\ s[i] = "@"
        /\ s[j] = "."
        /\ \A k \in 1..Len(s) : (k # i /\ k # j) => NotSpaceNotAt(s[k])

(***************************************************************************)
(* The contact form of the page: its named controls.  nombre and email     *)
(* are required, email has type email, telefono is optional and so is not  *)
(* selected by 'input[required], textarea[required], input[type="email"]'. *)
(***************************************************************************)
Fields == {"nombre", "email", "telefono"}

FieldRequired(f) == f \in {"nombre", "email"}

FieldType(f) == IF f = "email" THEN "email" ELSE "text"

\* contactForm.querySelectorAll('input[required], textarea[required], input[type="email"]')
fieldsToValidate == {f \in Fields : FieldRequired(f) \/ FieldType(f) = "email"}

\* what the user may type into a control
InputValues(f) ==
    CASE f = "nombre"   -> {<<>>, <<" ">>, <<"a">>}
      [] f = "email"    -> {<<>>, <<"a", "@", "a">>, <<"a", "@", "a", ".", "a">>}
      [] f = "telefono" -> {<<>>, <<"1">>}

\* the value contactForm.reset() gives a control (no value attribute)
DefaultValue(f) == <<>>

MsgRequired == "Este campo es obligatorio."
MsgEmail == "Por favor, introduzca un correo electronico valido."
MsgCorrect == "Por favor, corrija los errores en el formulario."
MsgProcessing == "Procesando su solicitud..."
MsgSuccessDefault == "Mensaje enviado con exito!"
MsgFailureDefault == "Error al enviar el mensaje. Intentelo mas tarde."
MsgConnection == "Error de conexion. Verifique su red o intentelo mas tarde."
LabelSending == "Enviando..."
\* the label of the submit button in the page
LabelOriginal == "Enviar Mensaje"

ClassRed == "text-center text-sm text-red-600 font-semibold"
ClassSky == "text-center text-sm text-sky-600"
ClassGreen == "text-center text-sm text-green-600 font-semibold"

ContactEndpoint == "http://127.0.0.1:5001/api/contact"

\* the message property of a parsed response body; "" is a missing or empty one
ServerMessages == {"", "Texto del servidor"}

\* role attribute absent
NoRole == "none"

VARIABLES
    fieldValue,         \* field.value of every control of the form
    borderRed,          \* field.classList has 'border-red-500'
    errorHidden,        \* the [data-error-for] element has class 'hidden'
    errorText,          \* textContent of the [data-error-for] element
    formMessageText,    \* formMessageElement.textContent
    formMessageClass,   \* formMessageElement.className
    containerRole,      \* role attribute of formMessageContainer
    submitDisabled,     \* submitButton.disabled
    submitText,         \* submitButton.textContent
    pending,            \* the bag of submit handlers suspended at an await
    layout,             \* which page the script was loaded in (never changes)
    menuHidden,         \* mobileMenu.classList has 'hidden'
    ariaExpanded,       \* aria-expanded attribute of mobileMenuButton
    iconClasses,        \* the fa-bars / fa-times classes of the button's <i>
    pageYOffset,        \* window.pageYOffset
    scrollDest,         \* where a smooth window.scrollTo is heading, or NoDest
    scrollTimeout,      \* the timer handle kept by the scroll listener, or NoTimer
    timers,             \* the window's timers: milliseconds left, or Idle
    quiet,              \* milliseconds since the last scroll event (history)
    evals,              \* timer-run evaluations since the last scroll event (history)
    burst,              \* the last scroll event came within ScrollDelay of the one before (history)
    activeLinks,        \* the nav links that carry 'nav-link-active'
    isVisible,          \* the fade-in sections with class 'is-visible'
    observed,           \* the fade-in sections the IntersectionObserver observes
    intersecting,       \* the fade-in sections the browser holds as intersecting
    probe,              \* a field validateField is called on outside the form
    verdict,            \* "true" or "false" as validateField returned for probe, or NoVerdict
    last                \* the event handled last (history, read by no handler)

formVars == <<fieldValue, borderRed, errorHidden, errorText, formMessageText,
              formMessageClass, containerRole, submitDisabled, submitText, pending>>

timerVars == <<scrollTimeout, timers, quiet, evals, burst>>

pageVars == <<layout, menuHidden, ariaExpanded, iconClasses, pageYOffset, scrollDest,
              timerVars, activeLinks>>

fadeVars == <<isVisible, observed, intersecting>>

probeVars == <<probe, verdict>>

vars == <<formVars, pageVars, fadeVars, probeVars, last>>

(***************************************************************************)
(* validateField, lines 79-105.                                            *)
(***************************************************************************)
\* the errorMessage validateField computes, lines 88-94; "" when isValid
errorMessage(required, type, value) ==
    IF required /\ trim(value) = <<>> THEN MsgRequired
    ELSE IF type = "email" /\ trim(value) # <<>> /\ ~EmailPattern(trim(value))
         THEN MsgEmail
         ELSE ""

\* the errorMessage for a value of a control of the form
ValidationError(f, v) == errorMessage(FieldRequired(f), FieldType(f), v)

\* the value validateField returns
validateField(f, v) == ValidationError(f, v) = ""

\* the three things validateField writes for the field, given what it was
ValidatedBorder(f, v) == ~validateField(f, v)

\* mutant of ValidatedHidden: only the required check reveals the error element
ValidatedHiddenRequiredOnly(f, v) == ~(FieldRequired(f) /\ trim(v) = <<>>)

ValidatedHidden(f, v) == validateField(f, v)

ValidatedText(f, v, old) ==
    IF validateField(f, v) THEN old ELSE ValidationError(f, v)

FormInit ==
    /\ fieldValue = [f \in Fields |-> DefaultValue(f)]
    /\ borderRed = [f \in fieldsToValidate |-> FALSE]
    /\ errorHidden = [f \in fieldsToValidate |-> TRUE]
    /\ errorText = [f \in fieldsToValidate |-> ""]
    /\ formMessageText = ""
    /\ formMessageClass = ""
    /\ containerRole = NoRole
    /\ submitDisabled = FALSE
    /\ submitText = LabelOriginal
    /\ pending = EmptyBag

\* the user edits a control
Input(f, v) ==
    /\ fieldValue[f] # v
    /\ fieldValue' = [fieldValue EXCEPT ![f] = v]
    /\ last' = [op |-> "input"]
    /\ UNCHANGED <<borderRed, errorHidden, errorText, formMessageText,
                   formMessageClass, containerRole, submitDisabled, submitText,
                   pending>>
    /\ UNCHANGED <<pageVars, fadeVars, probeVars>>

\* mutant of Blur: every field is validated, as on submit
BlurValidatesAll(f) ==
    /\ borderRed' = [g \in fieldsToValidate |-> ValidatedBorder(g, fieldValue[g])]
    /\ errorHidden' = [g \in fieldsToValidate |-> ValidatedHidden(g, fieldValue[g])]
    /\ errorText' = [g \in fieldsToValidate |->
                        ValidatedText(g, fieldValue[g], errorText[g])]
    /\ last' = [op |-> "blur", field |-> f]
    /\ UNCHANGED <<fieldValue, formMessageText, formMessageClass, containerRole,
                   submitDisabled, submitText, pending>>
    /\ UNCHANGED <<pageVars, fadeVars, probeVars>>

\* blur listener, lines 190-192
Blur(f) ==
    /\ borderRed' = [borderRed EXCEPT ![f] = ValidatedBorder(f, fieldValue[f])]
    /\ errorHidden' = [errorHidden EXCEPT ![f] = ValidatedHidden(f, fieldValue[f])]
    /\ errorText' = [errorText EXCEPT ![f] = ValidatedText(f, fieldValue[f], @)]
    /\ last' = [op |-> "blur", field |-> f]
    /\ UNCHANGED <<fieldValue, formMessageText, formMessageClass, containerRole,
                   submitDisabled, submitText, pending>>
    /\ UNCHANGED <<pageVars, fadeVars, probeVars>>

\* formIsValid after the forEach of lines 123-127
formIsValid == \A f \in fieldsToValidate : validateField(f, fieldValue[f])

\* mutant of dataToSend: only the validated controls are serialized
dataToSendValidated == [f \in fieldsToValidate |-> fieldValue[f]]

\* Object.fromEntries(new FormData(contactForm).entries()), lines 144-145
dataToSend == [f \in Fields |-> fieldValue[f]]

\* the fetch call of lines 148-152
FetchRequest(data) ==
    [url |-> ContactEndpoint, method |-> "POST", body |-> data]

\* mutant of BannerInvalid: the role attribute is not set
BannerInvalidNoRole == [text |-> MsgCorrect, class |-> ClassRed, role |-> containerRole]

\* the banner written when validation fails, lines 130-132
BannerInvalid == [text |-> MsgCorrect, class |-> ClassRed, role |-> "alert"]

\* lines 139-141
BannerProcessing == [text |-> MsgProcessing, class |-> ClassSky, role |-> NoRole]

\* result.message || default
OrDefault(message, default) == IF message # "" THEN message ELSE default

\* lines 157-159
BannerSuccess(message) ==
    [text |-> OrDefault(message, MsgSuccessDefault), class |-> ClassGreen,
     role |-> "status"]

\* lines 168-170
BannerFailure(message) ==
    [text |-> OrDefault(message, MsgFailureDefault), class |-> ClassRed,
     role |-> "alert"]

\* mutant of BannerConnection: the catch block reports a server failure
BannerConnectionAsFailure ==
    [text |-> MsgFailureDefault, class |-> ClassRed, role |-> "alert"]

\* lines 174-176
BannerConnection == [text |-> MsgConnection, class |-> ClassRed, role |-> "alert"]

ShowBanner(b) ==
    /\ formMessageText' = b.text
    /\ formMessageClass' = b.class
    /\ containerRole' = b.role

\* the handler suspended at await fetch(...), with what its closure holds
Suspended(label, data) ==
    [originalButtonText |-> label, request |-> FetchRequest(data),
     phase |-> "fetch", ok |-> FALSE]

\* the submit listener up to its first await, lines 117-152.  It tests
\* neither submitButton.disabled nor any in-flight flag, so it runs for a
\* submit event dispatched while earlier handlers are suspended.
Submit ==
    /\ formIsValid => BagCardinality(pending) < MaxPending
    /\ borderRed' = [f \in fieldsToValidate |-> ValidatedBorder(f, fieldValue[f])]
    /\ errorHidden' = [f \in fieldsToValidate |-> ValidatedHidden(f, fieldValue[f])]
    /\ errorText' = [f \in fieldsToValidate |->
                        ValidatedText(f, fieldValue[f], errorText[f])]
    /\ IF ~formIsValid
       THEN /\ ShowBanner(BannerInvalid)
            /\ UNCHANGED <<submitDisabled, submitText, pending>>
       ELSE /\ submitDisabled' = TRUE
            /\ submitText' = LabelSending
            /\ ShowBanner(BannerProcessing)
            /\ pending' = pending (+) SetToBag({Suspended(submitText, dataToSend)})
    /\ last' = [op |-> "submit"]
    /\ UNCHANGED fieldValue
    /\ UNCHANGED <<pageVars, fadeVars, probeVars>>

\* the finally block, lines 177-186, of the suspended handler h; the
\* callback of its setTimeout has an empty body
Finally(h) ==
    /\ submitDisabled' = FALSE
    /\ submitText' = h.originalButtonText
    /\ pending' = pending (-) SetToBag({h})

\* the catch block, lines 172-176, followed by finally
Catch(h) ==
    /\ ShowBanner(BannerConnection)
    /\ Finally(h)
    /\ UNCHANGED <<fieldValue, borderRed, errorHidden, errorText>>

\* await fetch(...) resolves with a response whose ok flag is isOk: the
\* handler goes on to await response.json(), line 154
FetchResolves(h, isOk) ==
    /\ h.phase = "fetch"
    /\ pending' = (pending (-) SetToBag({h}))
                      (+) SetToBag({[h EXCEPT !.phase = "json", !.ok = isOk]})
    /\ last' = [op |-> "fetchResolves", ok |-> isOk]
    /\ UNCHANGED <<fieldValue, borderRed, errorHidden, errorText, formMessageText,
                   formMessageClass, containerRole, submitDisabled, submitText>>
    /\ UNCHANGED <<pageVars, fadeVars, probeVars>>

\* await fetch(...) rejects: the request never completed
FetchRejects(h) ==
    /\ h.phase = "fetch"
    /\ Catch(h)
    /\ last' = [op |-> "fetchRejects"]
    /\ UNCHANGED <<pageVars, fadeVars, probeVars>>

\* mutant of Outcome: the form is reset whatever the response
OutcomeAlwaysResets(isOk, message) ==
    /\ ShowBanner(IF isOk THEN BannerSuccess(message) ELSE BannerFailure(message))
    /\ fieldValue' = [f \in Fields |-> DefaultValue(f)]
    /\ borderRed' = [f \in fieldsToValidate |-> FALSE]
    /\ errorHidden' = [f \in fieldsToValidate |-> TRUE]
    /\ UNCHANGED errorText

\* the branch on response.ok, lines 156-171
Outcome(isOk, message) ==
    IF isOk
    THEN /\ ShowBanner(BannerSuccess(message))
         /\ fieldValue' = [f \in Fields |-> DefaultValue(f)]
         /\ borderRed' = [f \in fieldsToValidate |-> FALSE]
         /\ errorHidden' = [f \in fieldsToValidate |-> TRUE]
         /\ UNCHANGED errorText
    ELSE /\ ShowBanner(BannerFailure(message))
         /\ UNCHANGED <<fieldValue, borderRed, errorHidden, errorText>>

\* await response.json() resolves with an object whose message is message
\* ("" when it has none), lines 154-171, then finally
JsonResolves(h, message) ==
    /\ h.phase = "json"
    /\ Outcome(h.ok, message)
    /\ Finally(h)
    /\ last' = [op |-> "jsonResolves", ok |-> h.ok, message |-> message]
    /\ UNCHANGED <<pageVars, fadeVars, probeVars>>

\* await response.json() rejects (the body is not JSON), or resolves with
\* null so that reading result.message throws: the catch block runs
JsonRejects(h) ==
    /\ h.phase = "json"
    /\ Catch(h)
    /\ last' = [op |-> "jsonRejects", ok |-> h.ok]
    /\ UNCHANGED <<pageVars, fadeVars, probeVars>>

FormNext ==
    \/ \E f \in Fields : \E v \in InputValues(f) : Input(f, v)
    \/ \E f \in fieldsToValidate : Blur(f)
    \/ Submit
    \/ \E h \in BagToSet(pending) : \E isOk \in BOOLEAN : FetchResolves(h, isOk)
    \/ \E h \in BagToSet(pending) : FetchRejects(h)
    \/ \E h \in BagToSet(pending) : \E m \in ServerMessages : JsonResolves(h, m)
    \/ \E h \in BagToSet(pending) : JsonRejects(h)

(***************************************************************************)
(* The page: header navigation, sections, scrolling.                       *)
(***************************************************************************)
\* headerNav.offsetHeight, line 227
navbarHeight == 60

\* the narrow-viewport limit of line 238
NarrowWidth == 768

\* the pages the script may be loaded in: the sections of main that have an
\* id, in document order, with each section's offsetTop.  In the second the
\* first section starts below a banner; in the third it is not 'inicio'.
Layouts ==
    << << [id |-> "inicio", offsetTop |-> 0],
          [id |-> "servicios", offsetTop |-> 600],
          [id |-> "contacto", offsetTop |-> 1200] >>,
       << [id |-> "inicio", offsetTop |-> 200],
          [id |-> "servicios", offsetTop |-> 600],
          [id |-> "contacto", offsetTop |-> 1200] >>,
       << [id |-> "nosotros", offsetTop |-> 200],
          [id |-> "servicios", offsetTop |-> 600],
          [id |-> "contacto", offsetTop |-> 1200] >> >>

\* document.querySelectorAll('main section[id]')
sectionsForNavHighlight == Layouts[layout]

\* the largest scroll offset of the document
MaxScrollTop == 1500

\* the anchors of header nav: the logo, the desktop menu and the mobile
\* menu; "#blog" names no element of the page
allNavLinks ==
    { [menu |-> "logo", href |-> "#inicio"] }
    \cup { [menu |-> m, href |-> h] :
             m \in {"desktop", "mobile"},
             h \in {"#inicio", "#servicios", "#contacto", "#blog"} }

desktopMenuLinks == {l \in allNavLinks : l.menu = "desktop"}

mobileMenuLinks == {l \in allNavLinks : l.menu = "mobile"}

\* window.innerWidth at a click
Widths == {NarrowWidth - 1, NarrowWidth}

\* where the user may scroll to
ScrollStops == {0, 79, 80, 479, 480, 1079, 1080, MaxScrollTop}

NoDest == -1

SectionIndex(href) ==
    {i \in 1..Len(sectionsForNavHighlight) :
        href = "#" \o sectionsForNavHighlight[i].id}

\* document.querySelector(targetId) finds an element
TargetExists(href) == SectionIndex(href) # {}

TargetTop(href) ==
    sectionsForNavHighlight[CHOOSE i \in SectionIndex(href) : TRUE].offsetTop

\* headerOffset, lines 237-242 (navbarHeight / 1.5 is 2 * navbarHeight / 3)
headerOffset(href, innerWidth) ==
    IF innerWidth < NarrowWidth /\ href = "#inicio" THEN (2 * navbarHeight) \div 3
    ELSE IF href = "#inicio" THEN 0
    ELSE navbarHeight + 20

\* the offset window.scrollTo ends at: the requested top, kept within the
\* scroll range of the document
Clamp(y) == IF y < 0 THEN 0 ELSE IF y > MaxScrollTop THEN MaxScrollTop ELSE y

\* offsetPosition, lines 244-245: getBoundingClientRect().top is
\* offsetTop - pageYOffset
offsetPosition(href, innerWidth) ==
    (TargetTop(href) - pageYOffset) + pageYOffset - headerOffset(href, innerWidth)

\* mutant of LastReached: a section counts only once its adjusted top is passed
RECURSIVE LastReachedStrict(_, _, _)
LastReachedStrict(i, y, current) ==
    IF i > Len(sectionsForNavHighlight) THEN current
    ELSE LET section == sectionsForNavHighlight[i]
             sectionTop == section.offsetTop - navbarHeight - 60
         IN  LastReachedStrict(i + 1, y, IF y > sectionTop THEN section.id ELSE current)

\* currentSectionId of updateActiveState, lines 270-284, at scroll offset y
RECURSIVE LastReached(_, _, _)
LastReached(i, y, current) ==
    IF i > Len(sectionsForNavHighlight) THEN current
    ELSE LET section == sectionsForNavHighlight[i]
             sectionTop == section.offsetTop - navbarHeight - 60
         IN  LastReached(i + 1, y, IF y >= sectionTop THEN section.id ELSE current)

\* mutant of currentSectionId: no default to 'inicio'
currentSectionIdNoDefault(y) == LastReached(1, y, "")

currentSectionId(y) ==
    LET found == LastReached(1, y, "")
    IN  IF /\ found = ""
           /\ Len(sectionsForNavHighlight) > 0
           /\ sectionsForNavHighlight[1].id = "inicio"
           /\ y < sectionsForNavHighlight[1].offsetTop
        THEN "inicio"
        ELSE found

\* the links left with 'nav-link-active' by updateActiveState, lines 287-293
updateActiveState(y) ==
    {l \in desktopMenuLinks \cup mobileMenuLinks : l.href = "#" \o currentSectionId(y)}

\* the delay of the setTimeout of line 300, in milliseconds
ScrollDelay == 100

\* the handles window.setTimeout can return
TimerIds == 1..MaxTimers

\* a timer that is not pending
Idle == -1

\* scrollTimeout before the first scroll event (undefined)
NoTimer == 0

PendingTimers(t) == {i \in TimerIds : t[i] # Idle}

\* mutant of clearTimeout: the pending timer is not cancelled
clearTimeoutMissing(t, handle) == t

\* clearTimeout(handle), line 299: no effect unless that timer is pending
clearTimeout(t, handle) ==
    IF handle \in PendingTimers(t) THEN [t EXCEPT ![handle] = Idle] ELSE t

PageInit ==
    /\ layout \in DOMAIN Layouts
    /\ menuHidden = TRUE
    /\ ariaExpanded = "false"
    /\ iconClasses = {"fa-bars"}
    /\ pageYOffset = 0
    /\ scrollDest = NoDest
    /\ scrollTimeout = NoTimer
    /\ timers = [i \in TimerIds |-> Idle]
    /\ quiet = ScrollDelay
    /\ evals = 0
    /\ burst = FALSE
    /\ activeLinks = updateActiveState(0)

MenuNow == [hidden |-> menuHidden, aria |-> ariaExpanded, icon |-> iconClasses]

\* mutant of Toggle: the force argument is taken as true
ToggleAlwaysAdds(classes, name, force) == classes \cup {name}

\* classList.toggle(name, force)
Toggle(classes, name, force) ==
    IF force THEN classes \cup {name} ELSE classes \ {name}

\* click listener of the menu button, lines 39-48
ClickMenuButton ==
    LET isExpanded == ariaExpanded = "true"
    IN  /\ ariaExpanded' = (IF ~isExpanded THEN "true" ELSE "false")
        /\ menuHidden' = ~menuHidden
        /\ iconClasses' = Toggle(Toggle(iconClasses, "fa-bars", isExpanded),
                                 "fa-times", ~isExpanded)
        /\ last' = [op |-> "menuButton", twice |-> last.op = "menuButton",
                     before |-> MenuNow,
                     prior |-> IF last.op = "menuButton" THEN last.before ELSE MenuNow]
        /\ UNCHANGED <<pageYOffset, scrollDest, timerVars, activeLinks>>
        /\ UNCHANGED <<layout, formVars, fadeVars, probeVars>>

\* mutant of Closed: aria-expanded is left as it is
ClosedKeepsAria ==
    [hidden |-> TRUE, aria |-> ariaExpanded,
     icon |-> (iconClasses \ {"fa-times"}) \cup {"fa-bars"}]

\* the menu state written when a handler closes the menu, lines 54-59 and
\* 254-260
Closed ==
    [hidden |-> TRUE, aria |-> "false",
     icon |-> (iconClasses \ {"fa-times"}) \cup {"fa-bars"}]

\* mutant of MobileLinkListener: the listener is missing
MobileLinkListenerMissing(m) == m

\* click listener of a mobile menu link, lines 52-61
MobileLinkListener(m) == IF ~m.hidden THEN Closed ELSE m

\* the menu part of the anchor click listener, lines 252-261
AnchorListenerMenu(m, link, exists) ==
    IF exists /\ ~m.hidden /\ link \in mobileMenuLinks THEN Closed ELSE m

\* a click on an anchor of header nav: the listener of lines 52-61 when the
\* link is in the mobile menu, then the listener of lines 230-264
ClickNavLink(link, innerWidth) ==
    LET exists == TargetExists(link.href)
        m1 == IF link \in mobileMenuLinks THEN MobileLinkListener(MenuNow) ELSE MenuNow
        m2 == AnchorListenerMenu(m1, link, exists)
        dest == IF exists THEN Clamp(offsetPosition(link.href, innerWidth)) ELSE NoDest
    IN  /\ menuHidden' = m2.hidden
        /\ ariaExpanded' = m2.aria
        /\ iconClasses' = m2.icon
        /\ scrollDest' = (IF ~exists THEN scrollDest
                          ELSE IF dest = pageYOffset THEN NoDest ELSE dest)
        /\ last' = [op |-> "navLink", link |-> link, wasHidden |-> menuHidden]
        /\ UNCHANGED <<pageYOffset, timerVars, activeLinks>>
        /\ UNCHANGED <<layout, formVars, fadeVars, probeVars>>

\* scroll listener, lines 298-301: clearTimeout, then setTimeout; the window
\* hands out the lowest free handle
ScrollListener ==
    LET cleared == clearTimeout(timers, scrollTimeout)
        free == TimerIds \ PendingTimers(cleared)
    IN  /\ free # {}
        /\ LET id == CHOOSE i \in free : \A j \in free : i <= j
           IN  /\ timers' = [cleared EXCEPT ![id] = ScrollDelay]
               /\ scrollTimeout' = id
        /\ quiet' = 0
        /\ evals' = 0
        /\ burst' = (quiet < ScrollDelay)

\* the user scrolls the page, which ends a smooth scroll under way
UserScroll(y) ==
    /\ y # pageYOffset
    /\ pageYOffset' = y
    /\ scrollDest' = NoDest
    /\ ScrollListener
    /\ last' = [op |-> "scroll"]
    /\ UNCHANGED <<menuHidden, ariaExpanded, iconClasses, activeLinks>>
    /\ UNCHANGED <<layout, formVars, fadeVars, probeVars>>

\* the smooth scroll of window.scrollTo reaches its destination
SmoothScroll ==
    /\ scrollDest # NoDest
    /\ pageYOffset' = scrollDest
    /\ scrollDest' = NoDest
    /\ ScrollListener
    /\ last' = [op |-> "smoothScroll"]
    /\ UNCHANGED <<menuHidden, ariaExpanded, iconClasses, activeLinks>>
    /\ UNCHANGED <<layout, formVars, fadeVars, probeVars>>

\* mutant of ScrollTimerFires: the timer fires and its callback does nothing
ScrollTimerFiresIdle(id) ==
    /\ timers[id] = 0
    /\ timers' = [timers EXCEPT ![id] = Idle]
    /\ evals' = evals + 1
    /\ last' = [op |-> "timer"]
    /\ UNCHANGED <<menuHidden, ariaExpanded, iconClasses, pageYOffset, scrollDest,
                   scrollTimeout, quiet, burst, activeLinks>>
    /\ UNCHANGED <<layout, formVars, fadeVars, probeVars>>

\* a timer of line 300 has run its delay and fires: updateActiveState runs
ScrollTimerFires(id) ==
    /\ timers[id] = 0
    /\ timers' = [timers EXCEPT ![id] = Idle]
    /\ activeLinks' = updateActiveState(pageYOffset)
    /\ evals' = evals + 1
    /\ last' = [op |-> "timer"]
    /\ UNCHANGED <<menuHidden, ariaExpanded, iconClasses, pageYOffset, scrollDest,
                   scrollTimeout, quiet, burst>>
    /\ UNCHANGED <<layout, formVars, fadeVars, probeVars>>

\* TickMs milliseconds pass with no event handled
Tick ==
    /\ timers' = [i \in TimerIds |->
                     IF timers[i] = Idle THEN Idle
                     ELSE IF timers[i] > TickMs THEN timers[i] - TickMs ELSE 0]
    /\ quiet' = (IF quiet + TickMs < ScrollDelay THEN quiet + TickMs ELSE ScrollDelay)
    /\ last' = [op |-> "tick"]
    /\ UNCHANGED <<menuHidden, ariaExpanded, iconClasses, pageYOffset, scrollDest,
                   scrollTimeout, evals, burst, activeLinks>>
    /\ UNCHANGED <<layout, formVars, fadeVars, probeVars>>

PageNext ==
    \/ ClickMenuButton
    \/ \E link \in allNavLinks : \E w \in Widths : ClickNavLink(link, w)
    \/ \E y \in ScrollStops : UserScroll(y)
    \/ SmoothScroll
    \/ \E id \in TimerIds : ScrollTimerFires(id)
    \/ Tick

(***************************************************************************)
(* setupFadeInAnimations, lines 198-218.                                   *)
(***************************************************************************)
\* document.querySelectorAll('.fade-in-section')
sectionsToFadeIn == 1..MaxFade

\* after observer.observe(section) for every section; nothing is in view
FadeInit ==
    /\ isVisible = {}
    /\ observed = sectionsToFadeIn
    /\ intersecting = {}

\* mutant of intersectionCallback: the target is not unobserved
intersectionCallbackKeepsObserving(entries, visible, obs) ==
    [visible |-> visible \cup {e.target : e \in {x \in entries : x.isIntersecting}},
     observed |-> obs]

\* intersectionCallback, lines 207-214: the 'is-visible' sections and the
\* observed sections after the entries are handled
intersectionCallback(entries, visible, obs) ==
    LET shown == {e.target : e \in {x \in entries : x.isIntersecting}}
    IN  [visible |-> visible \cup shown, observed |-> obs \ shown]

\* the sections of T cross the threshold, in or out; the observer reports
\* those of them it observes to the callback
IntersectionChange(T) ==
    LET now == (intersecting \ T) \cup (T \ intersecting)
        entries == {[target |-> s, isIntersecting |-> s \in now] : s \in T \cap observed}
        after == intersectionCallback(entries, isVisible, observed)
    IN  /\ intersecting' = now
        /\ isVisible' = after.visible
        /\ observed' = after.observed
        /\ last' = [op |-> "intersection", targets |-> T]
        /\ UNCHANGED <<formVars, pageVars, probeVars>>

FadeNext == \E T \in (SUBSET sectionsToFadeIn) \ {{}} : IntersectionChange(T)

(***************************************************************************)
(* validateField on any field: required or not, of type email or not, and  *)
(* any short value over a letter, a space, '@' and '.'.                    *)
(***************************************************************************)
ProbeChars == {"a", " ", "@", "."}

ProbeValues == UNION {[1..n -> ProbeChars] : n \in 0..MaxLen}

ProbeFields == [required : BOOLEAN, type : {"text", "email"}, value : ProbeValues]

NoVerdict == "none"

\* the field validateField is called on in the other specifications
ProbeInit ==
    /\ probe = [required |-> FALSE, type |-> "text", value |-> <<>>]
    /\ verdict = NoVerdict

\* validateField(probe) returns
ValidateProbe ==
    /\ verdict = NoVerdict
    /\ verdict' = IF errorMessage(probe.required, probe.type, probe.value) = ""
                  THEN "true" ELSE "false"
    /\ last' = [op |-> "validate"]
    /\ UNCHANGED <<formVars, pageVars, fadeVars, probe>>

Init == FormInit /\ PageInit /\ FadeInit /\ ProbeInit /\ last = [op |-> "init"]

\* the page without its contact form, which shares no state with the rest
Spec == Init /\ [][PageNext]_vars

\* the contact form, in the first page
FormSpecInit == Init /\ layout = 1

SpecForm == FormSpecInit /\ [][FormNext]_vars

\* the page with time passing and due timers run: the event loop runs the
\* callback of a timer whose delay has elapsed, and the clock does not stop
SpecLive ==
    /\ Init
    /\ [][PageNext]_vars
    /\ WF_vars(Tick)
    /\ WF_vars(\E id \in TimerIds : ScrollTimerFires(id))

\* the fade-in sections alone
SpecFade == FormSpecInit /\ [][FadeNext]_vars

\* validateField as a function of the field it is given
ValidateInit ==
    /\ FormInit /\ PageInit /\ FadeInit
    /\ layout = 1
    /\ probe \in ProbeFields
    /\ verdict = NoVerdict
    /\ last = [op |-> "init"]

SpecValidate == ValidateInit /\ [][ValidateProbe]_vars

(***************************************************************************)
(* Properties of the mobile menu (specification Spec).                     *)
(***************************************************************************)
\* C1: from the closed state, after any sequence of clicks on the menu
\* button, on mobile menu links and on other header anchors, the panel is
\* visible iff aria-expanded is 'true' iff the icon is fa-times, and hidden
\* iff aria-expanded is 'false' iff the icon is fa-bars.
C1_MenuConsistent ==
    /\ ~menuHidden <=> ariaExpanded = "true"
    /\ ariaExpanded = "true" <=> iconClasses = {"fa-times"}
    /\ menuHidden <=> ariaExpanded = "false"
    /\ ariaExpanded = "false" <=> iconClasses = {"fa-bars"}

\* the menu is open, and still open after a click on a desktop link
C1_Witness ==
    /\ last.op = "navLink"
    /\ last.link \in desktopMenuLinks
    /\ ~menuHidden
    /\ ariaExpanded = "true"
    /\ iconClasses = {"fa-times"}

\* C10: a click on a mobile menu link leaves the menu hidden, aria-expanded
\* 'false' and the icon fa-bars, whether the menu was open or closed and
\* whether or not the link's target exists.
C10_MobileLinkCloses ==
    (last.op = "navLink" /\ last.link \in mobileMenuLinks)
        => /\ menuHidden
           /\ ariaExpanded = "false"
           /\ iconClasses = {"fa-bars"}

\* the menu was open and the clicked mobile link has no target element
C10_Witness ==
    /\ last.op = "navLink"
    /\ last.link \in mobileMenuLinks
    /\ ~last.wasHidden
    /\ ~TargetExists(last.link.href)
    /\ menuHidden

\* C11: two consecutive clicks on the menu button return aria-expanded, the
\* panel's 'hidden' class and the icon's fa-bars / fa-times classes to the
\* values they had before the first click.
C11_ToggleTwice ==
    (last.op = "menuButton" /\ last.twice) => MenuNow = last.prior

\* the menu was open, was closed by the first click and is open again
C11_Witness ==
    /\ last.op = "menuButton"
    /\ last.twice
    /\ ~last.prior.hidden
    /\ last.before.hidden
    /\ MenuNow = last.prior

(***************************************************************************)
(* Properties of the scroll highlighter (specification Spec).              *)
(***************************************************************************)
ScrollEvent == last.op \in {"scroll", "smoothScroll"}

Evaluation == last.op = "timer"

\* updateActiveState has just run: at setup, or from the timer
EvaluationDone == last.op \in {"init", "timer"}

\* a section's top less the navbar height and 60
AdjustedTop(i) == sectionsForNavHighlight[i].offsetTop - navbarHeight - 60

\* the sections whose adjusted top is at or before the scroll offset
Reached == {i \in 1..Len(sectionsForNavHighlight) : AdjustedTop(i) <= pageYOffset}

LastOfReached == CHOOSE i \in Reached : \A j \in Reached : j <= i

\* the desktop and mobile links whose href is '#' plus id
LinksTo(id) == {l \in desktopMenuLinks \cup mobileMenuLinks : l.href = "#" \o id}

\* C13 as stated: after every evaluation the current section is the last
\* section whose adjusted top is at or before the scroll offset, and a link
\* is active iff its href is '#' plus that section's id (so none is when no
\* section is reached).
C13_AsStated ==
    EvaluationDone =>
        activeLinks = IF Reached = {} THEN {}
                      ELSE LinksTo(sectionsForNavHighlight[LastOfReached].id)

\* C13 amended: after every evaluation at which some section's adjusted top
\* is at or before the scroll offset, the current section is the last such
\* section in document order and a desktop or mobile link is active iff its
\* href is '#' plus that section's id.
C13_LastReachedActive ==
    (EvaluationDone /\ Reached # {}) =>
        activeLinks = LinksTo(sectionsForNavHighlight[LastOfReached].id)

\* the scroll offset is exactly the adjusted top of the second section and
\* the timer has marked its two links, and no others
C13_Witness ==
    /\ last.op = "timer"
    /\ pageYOffset = AdjustedTop(2)
    /\ LastOfReached = 2
    /\ activeLinks = LinksTo("servicios")
    /\ Cardinality(activeLinks) = 2

\* C18: when no section's adjusted top is at or before the scroll offset,
\* the 'inicio' links are active if the first section's id is 'inicio' and
\* the scroll offset is above that section's top; otherwise no link is
\* active after the evaluation.
C18_NoneReached ==
    (EvaluationDone /\ Reached = {}) =>
        IF /\ sectionsForNavHighlight[1].id = "inicio"
           /\ pageYOffset < sectionsForNavHighlight[1].offsetTop
        THEN activeLinks = LinksTo("inicio") /\ activeLinks # {}
        ELSE activeLinks = {}

\* the user scrolled back above the adjusted top of 'inicio', the first
\* section, and the timer marked the 'inicio' links
C18_Witness ==
    /\ last.op = "timer"
    /\ Reached = {}
    /\ pageYOffset > 0
    /\ sectionsForNavHighlight[1].id = "inicio"
    /\ activeLinks = LinksTo("inicio")
    /\ Cardinality(activeLinks) = 2

\* C12: at most one evaluation timer is pending at any moment; every scroll
\* event cancels the pending timer and starts a new one of 100 ms, so an
\* evaluation runs only when 100 ms have passed with no scroll event, and a
\* burst of scroll events less than 100 ms apart causes one evaluation,
\* after its last event.
C12_Debounce ==
    [][ /\ Cardinality(PendingTimers(timers')) <= 1
        /\ ScrollEvent' =>
              /\ PendingTimers(timers') = {scrollTimeout'}
              /\ timers'[scrollTimeout'] = ScrollDelay
              /\ burst' => evals = 0
        /\ Evaluation' =>
              /\ quiet >= ScrollDelay
              /\ evals' = 1
              /\ PendingTimers(timers') = {}
        /\ scrollTimeout' # NoTimer =>
              /\ evals' = 0 <=> PendingTimers(timers') # {}
              /\ evals' = 1 <=> PendingTimers(timers') = {}
      ]_vars

\* the one evaluation that follows a burst has run
C12_Witness ==
    /\ Evaluation
    /\ burst
    /\ evals = 1
    /\ quiet = ScrollDelay
    /\ PendingTimers(timers) = {}

\* no evaluation is pending and the active links are those of the section
\* selected for the scroll position
Settled ==
    /\ PendingTimers(timers) = {}
    /\ activeLinks = updateActiveState(pageYOffset)

\* C19: if scroll events stop, the pending evaluation eventually runs and
\* from then on the active links are those of the section selected for the
\* final scroll position (before any scroll event they are those of the
\* evaluation made at setup).
C19_EventuallyFresh == ([]<>ScrollEvent) \/ (<>[]Settled)

\* the evaluation a scroll event left pending has run and changed the
\* active links to those of the section scrolled to
C19_Witness ==
    /\ Evaluation
    /\ Settled
    /\ pageYOffset = MaxScrollTop
    /\ activeLinks = LinksTo("contacto")
    /\ activeLinks # updateActiveState(0)

(***************************************************************************)
(* Properties of the fade-in sections (specification SpecFade).            *)
(***************************************************************************)
\* C14: a section is given 'is-visible' and is unobserved the first time it
\* is reported intersecting; the class is never removed; a section that is
\* no longer observed is not touched by any later intersection change; the
\* sections not yet revealed are exactly the ones still observed.
C14_OneShot ==
    [][ last'.op = "intersection" =>
          LET reported == {s \in observed : s \in last'.targets /\ s \in intersecting'}
          IN  /\ isVisible \subseteq isVisible'
              /\ isVisible' = isVisible \cup reported
              /\ observed' = observed \ reported
              /\ \A s \in sectionsToFadeIn \ observed :
                     /\ s \notin observed'
                     /\ s \in isVisible' <=> s \in isVisible
              /\ observed' = sectionsToFadeIn \ isVisible'
      ]_vars

\* a revealed section has just left the viewport and kept the class, while
\* another section, never in view yet, is still observed
C14_Witness ==
    /\ last.op = "intersection"
    /\ \E s \in last.targets :
          s \in isVisible /\ s \notin intersecting /\ s \notin observed
    /\ observed # {}
    /\ observed = sectionsToFadeIn \ isVisible

(***************************************************************************)
(* Properties of validateField (specification SpecValidate).               *)
(***************************************************************************)
AllWhitespace(v) == \A k \in 1..Len(v) : v[k] \in Whitespace

\* C15: for a required field validateField reports invalid iff the value is
\* empty after trimming, i.e. holds whitespace only; a value with some other
\* character is valid unless the field is an email field whose trimmed value
\* fails the email pattern.
C15_Required ==
    (verdict # NoVerdict /\ probe.required) =>
        /\ AllWhitespace(probe.value) => verdict = "false"
        /\ (~AllWhitespace(probe.value) /\ probe.type # "email") => verdict = "true"
        /\ (~AllWhitespace(probe.value) /\ probe.type = "email") =>
              (verdict = "true" <=> EmailPattern(trim(probe.value)))
        /\ probe.type # "email" => (verdict = "false" <=> trim(probe.value) = <<>>)

\* a required text field holding two spaces is reported invalid
C15_Witness ==
    /\ verdict = "false"
    /\ probe.required
    /\ probe.type = "text"
    /\ probe.value = <<" ", " ">>

\* the positions of '@' in a value
Ats(t) == {k \in 1..Len(t) : t[k] = "@"}

\* local@domain.tld: no whitespace, exactly one '@', something before it,
\* and after it a '.' with something on both sides
EmailShape(t) ==
    /\ \A k \in 1..Len(t) : t[k] \notin Whitespace
    /\ Cardinality(Ats(t)) = 1
    /\ LET at == CHOOSE k \in Ats(t) : TRUE
       IN  /\ at > 1
           /\ \E j \in (at + 1)..Len(t) : t[j] = "." /\ j > at + 1 /\ j < Len(t)

\* C16: for an email field whose trimmed value is not empty validateField
\* reports valid iff the trimmed value has the shape local@domain.tld; an
\* empty email field that is not required is valid.
C16_EmailShape ==
    (verdict # NoVerdict /\ probe.type = "email") =>
        /\ ~AllWhitespace(probe.value) =>
              (verdict = "true" <=> EmailShape(trim(probe.value)))
        /\ (probe.value = <<>> /\ ~probe.required) => verdict = "true"

\* 'a@a.a' is reported valid
C16_Witness ==
    /\ verdict = "true"
    /\ probe.type = "email"
    /\ probe.value = <<"a", "@", "a", ".", "a">>

(***************************************************************************)
(* Properties of the contact form (specification SpecForm).                *)
(***************************************************************************)
AllSettled == pending = EmptyBag

\* C2: once every submission that passed validation has completed, the
\* submit control is enabled and its label is the one it had before the
\* first submission started.
C2_LabelRestored ==
    AllSettled => (~submitDisabled /\ submitText = LabelOriginal)

\* the handlers suspended at await fetch(...): the calls in flight
InFlight(p) == {h \in BagToSet(p) : h.phase = "fetch"}

\* the number of calls in flight
CallsInFlight ==
    BagCardinality([h \in InFlight(pending) |-> CopiesIn(h, pending)])

\* C17: at most one contact-form network call is in flight at any time.
C17_OneInFlight == CallsInFlight <= 1

\* C20: validating a field on focus loss shows that field's error element
\* and red border iff its current value is invalid, and changes no other
\* field's indicator, nor the banner, the submit control, the values or the
\* suspended submissions.
C20_BlurFrame ==
    [][ last'.op = "blur" =>
          LET f == last'.field
              invalid == ~validateField(f, fieldValue'[f])
          IN  /\ ~errorHidden'[f] <=> invalid
              /\ borderRed'[f] <=> invalid
              /\ invalid => errorText'[f] = ValidationError(f, fieldValue'[f])
              /\ \A g \in fieldsToValidate \ {f} :
                     /\ errorHidden'[g] = errorHidden[g]
                     /\ borderRed'[g] = borderRed[g]
                     /\ errorText'[g] = errorText[g]
              /\ UNCHANGED <<fieldValue, formMessageText, formMessageClass,
                             containerRole, submitDisabled, submitText, pending>>
      ]_vars

\* the email field's indicator, left by an earlier validation, has been
\* cleared by a blur now that the value is valid; the indicator of nombre,
\* which is still invalid, stays
C20_Witness ==
    /\ last.op = "blur"
    /\ last.field = "email"
    /\ validateField("email", fieldValue["email"])
    /\ errorHidden["email"] /\ ~borderRed["email"]
    /\ errorText["email"] = MsgEmail
    /\ ~validateField("nombre", fieldValue["nombre"])
    /\ ~errorHidden["nombre"] /\ borderRed["nombre"]

\* C3: a submit event with every required/email field valid issues exactly
\* one POST to the contact endpoint whose body has the form's field names as
\* keys and the fields' values at submit time; no other event issues a call.
C3_OnePost ==
    [][ IF last'.op = "submit" /\ formIsValid
        THEN \E h \in InFlight(pending') :
                /\ pending' = pending (+) SetToBag({h})
                /\ h.request.url = ContactEndpoint
                /\ h.request.method = "POST"
                /\ DOMAIN h.request.body = Fields
                /\ \A f \in Fields : h.request.body[f] = fieldValue[f]
        ELSE \A h \in InFlight(pending') :
                h \in InFlight(pending) /\ pending'[h] <= pending[h]
      ]_vars

\* a second call in flight, issued with the optional field filled in
C3_Witness ==
    /\ last.op = "submit"
    /\ formIsValid
    /\ fieldValue["telefono"] # <<>>
    /\ BagCardinality(pending) = 2
    /\ \E h \in InFlight(pending) : h.request.body = fieldValue

InvalidFields == {f \in fieldsToValidate : ~validateField(f, fieldValue[f])}

\* what every submit event with an invalid field does, whatever the control
\* is like
C4_Rejected ==
    /\ pending' = pending
    /\ formMessageText' = MsgCorrect
    /\ formMessageClass' = ClassRed
    /\ \A f \in InvalidFields : ~errorHidden'[f]

\* C4 as stated: a submit event with an invalid field issues no call, shows
\* the aggregate banner and the inline error of every invalid field, and
\* leaves the submit control enabled with its label unchanged.
C4_AsStated ==
    [][ (last'.op = "submit" /\ ~formIsValid)
            => /\ C4_Rejected
               /\ ~submitDisabled'
               /\ submitText' = submitText
      ]_vars

\* C4 amended: ... and leaves the disabled flag and the label of the submit
\* control as they were, so enabled unless an earlier submission is still
\* awaiting its response.
C4_InvalidSubmit ==
    [][ (last'.op = "submit" /\ ~formIsValid)
            => /\ C4_Rejected
               /\ submitDisabled' = submitDisabled
               /\ submitText' = submitText
               /\ AllSettled => ~submitDisabled'
      ]_vars

\* both validated fields are invalid, for different reasons, and both inline
\* errors are shown under the aggregate banner, while an earlier submission
\* awaits its response
C4_Witness ==
    /\ last.op = "submit"
    /\ InvalidFields = fieldsToValidate
    /\ errorText["nombre"] = MsgRequired
    /\ errorText["email"] = MsgEmail
    /\ \A f \in fieldsToValidate : ~errorHidden[f]
    /\ formMessageText = MsgCorrect
    /\ ~AllSettled
    /\ submitDisabled
    /\ submitText = LabelSending

\* the awaited response completed: response.json() resolved or rejected
Responded == last.op \in {"jsonResolves", "jsonRejects"}

\* the message field of the response body, "" when there is none to read
BodyMessage == IF last.op = "jsonResolves" THEN last.message ELSE ""

\* C5: on an ok response the banner shows the body's message when present
\* and non-empty, otherwise the default success text; the fields are reset
\* and the inline error of every validated field is hidden.
C5_OkResponse ==
    (Responded /\ last.ok)
        => /\ formMessageText = OrDefault(BodyMessage, MsgSuccessDefault)
           /\ fieldValue = [f \in Fields |-> DefaultValue(f)]
           /\ \A f \in fieldsToValidate : errorHidden[f] /\ ~borderRed[f]

\* C6: for every non-ok response, with or without a message in its body,
\* the banner shows the server's message when present and otherwise the
\* default failure text.
C6_NonOkResponse ==
    (Responded /\ ~last.ok)
        => formMessageText = OrDefault(BodyMessage, MsgFailureDefault)

\* C7: when the network call is rejected the banner shows the fixed
\* connection-error text in place of the processing message, and the form
\* is not reset.
C7_TransportFailure ==
    [][ last'.op = "fetchRejects"
            => /\ formMessageText' = MsgConnection
               /\ formMessageClass' = ClassRed
               /\ fieldValue' = fieldValue
      ]_vars

\* the call was rejected while the banner said processing; the values
\* entered are still there
C7_Witness ==
    /\ last.op = "fetchRejects"
    /\ formMessageText = MsgConnection
    /\ fieldValue["nombre"] = <<"a">>
    /\ fieldValue["telefono"] = <<"1">>
    /\ AllSettled

\* a failure outcome of a submit event has just been handled
ValidationFailed == last.op = "submit" /\ ~formIsValid

ResponseFailed ==
    \/ last.op \in {"fetchRejects", "jsonRejects"}
    \/ last.op = "jsonResolves" /\ ~last.ok

\* C8 as stated: every failure outcome leaves the field values as entered
\* and the submit control enabled; only an ok response resets the values.
C8_AsStated ==
    [][ /\ (ValidationFailed' \/ ResponseFailed')
            => (fieldValue' = fieldValue /\ ~submitDisabled')
        /\ (fieldValue' # fieldValue /\ last'.op # "input")
            => (last'.op = "jsonResolves" /\ last'.ok)
      ]_vars

\* C8 amended: every failure outcome leaves the field values as entered; a
\* non-ok response or a transport failure leaves the submit control
\* enabled, a validation failure leaves it as it was; only an ok response
\* resets the values.
C8_FailuresKeepForm ==
    [][ /\ (ValidationFailed' \/ ResponseFailed') => fieldValue' = fieldValue
        /\ ResponseFailed' => ~submitDisabled'
        /\ ValidationFailed' => submitDisabled' = submitDisabled
        /\ (fieldValue' # fieldValue /\ last'.op # "input")
            => (last'.op = "jsonResolves" /\ last'.ok)
      ]_vars

\* a non-ok response with a message was handled and the values are kept
C8_Witness ==
    /\ last.op = "jsonResolves"
    /\ ~last.ok
    /\ last.message # ""
    /\ formMessageText = last.message
    /\ formIsValid
    /\ ~submitDisabled

\* C9: whenever the banner shows a validation, server-failure or
\* connection-error message the container's role is 'alert', and whenever
\* it shows a success message the role is 'status'.
C9_Roles ==
    /\ formMessageClass = ClassRed => containerRole = "alert"
    /\ formMessageText \in {MsgCorrect, MsgFailureDefault, MsgConnection}
            => containerRole = "alert"
    /\ formMessageClass = ClassGreen => containerRole = "status"
    /\ formMessageText = MsgSuccessDefault => containerRole = "status"

\* a validation banner written while a response is awaited, after the
\* processing banner removed the role
C9_Witness ==
    /\ last.op = "submit"
    /\ ~AllSettled
    /\ formMessageText = MsgCorrect
    /\ containerRole = "alert"

====
